---- MODULE Spec2Model ----
(***************************************************************************)
(* Model of lrclibium.py: the lyric cache of LyricsManager, the LRC parser, *)
(* the active-line computation and window selection of render_panel, and   *)
(* the synchronization loop of run_lyrics.                                  *)
(*                                                                         *)
(* Strings are sequences of atoms (short strings); a line of LRC text is a *)
(* sequence of symbols, each a timestamp token matched by TIMESTAMP_RE or  *)
(* a character.  Offsets and times are integers: only their order and the  *)
(* sum minutes*60 + seconds matter.  Indices are 0-based as in the source.  *)
(***************************************************************************)
EXTENDS Integers, Sequences, FiniteSets, TLC

VARIABLES
    cache,          \* LyricsManager.cache: entries [key, val], oldest first
    cache_size,     \* LyricsManager.cache_size
    window,         \* WindowManager.size
    last_track,     \* run_lyrics: last_track
    lyrics_lines,   \* run_lyrics: lyrics_lines
    pc,             \* run_lyrics: the await the loop is suspended at
    artist,         \* run_lyrics: artist of the current tick
    title,          \* run_lyrics: title of the current tick
    panel,          \* the last panel handed to live.update
    call,           \* the last completed call of the operation under study
    clock,          \* number of completed get_lyrics calls (history)
    access,         \* history: key -> clock value of its most recent access
    runId,          \* history: identity observed by the last resolved tick
    runFetches,     \* history: _fetch_lyrics invocations since runId changed
    inflight,       \* the player queries and retrievals awaited and not completed
    lyricsFor       \* history: the key get_lyrics was called with for lyrics_lines

vars == <<cache, cache_size, window, last_track, lyrics_lines, pc, artist,
          title, panel, call, clock, access, runId, runFetches, inflight, lyricsFor>>

-----------------------------------------------------------------------------
(* Bounds *)
MaxCap == 2
MaxCalls == 4
MaxRecLen == 3
MaxRecords == 2
MaxSymbols == 4
MaxLines == 3
MaxOff == 3
MaxSize == 3
MaxTotal == 5

None == <<"None">>

-----------------------------------------------------------------------------
(* Small helpers *)
Min(S) == CHOOSE x \in S : \A y \in S : x <= y
Max(S) == CHOOSE x \in S : \A y \in S : x >= y
MaxOf(a, b) == IF a >= b THEN a ELSE b
MinOf(a, b) == IF a <= b THEN a ELSE b

RECURSIVE SeqsUpTo(_, _)
SeqsUpTo(S, n) ==
    IF n = 0 THEN {<<>>}
    ELSE LET shorter == SeqsUpTo(S, n - 1)
         IN  shorter \cup {Append(s, x) : s \in {t \in shorter : Len(t) = n - 1}, x \in S}

-----------------------------------------------------------------------------
(* parse_lrc *)

Line(off, txt) == [offset |-> off, text |-> txt]

NotFound == <<Line(0, <<"Lyrics not found">>)>>
NoParse == <<Line(0, <<"No parseable lyrics found">>)>>

\* A timestamp token "[mins:secs]"; ovf marks digit strings so long that
\* int(), float() or mins * 60 + secs raises.
Ts(m, s, o) == [kind |-> "ts", mins |-> m, secs |-> s, ovf |-> o, ch |-> ""]
Ch(c) == [kind |-> "ch", mins |-> 0, secs |-> 0, ovf |-> FALSE, ch |-> c]

IsTs(sym) == sym.kind = "ts"
IsSpace(sym) == sym.kind = "ch" /\ sym.ch = " "

\* list(TIMESTAMP_RE.finditer(line))
Matches(line) == SelectSeq(line, IsTs)

\* matches[-1].end(), as the number of symbols up to the last match
LastEnd(line) == Max({i \in DOMAIN line : IsTs(line[i])})

RECURSIVE LStrip(_)
LStrip(s) == IF s # <<>> /\ IsSpace(Head(s)) THEN LStrip(Tail(s)) ELSE s

RECURSIVE RStrip(_)
RStrip(s) ==
    IF s # <<>> /\ IsSpace(s[Len(s)]) THEN RStrip(SubSeq(s, 1, Len(s) - 1)) ELSE s

\* str.strip()
Strip(s) == RStrip(LStrip(s))

TextOf(s) == [i \in DOMAIN s |-> s[i].ch]

\* the try block: int(m.group(1)), float(m.group(2)), mins * 60 + secs
Converts(m) == ~m.ovf
Offset(m) == m.mins * 60 + m.secs

LyricOfMut(line) ==
    LET first == Min({i \in DOMAIN line : IsTs(line[i])})
    IN  TextOf(Strip(SubSeq(line, first + 1, Len(line))))

\* line[matches[-1].end():].strip()
LyricOf(line) == TextOf(Strip(SubSeq(line, LastEnd(line) + 1, Len(line))))

\* the body of the loop over text.splitlines(): the lines one record appends
RecordLines(line) ==
    IF Matches(line) = <<>> THEN <<>>
    ELSE LET ok == SelectSeq(Matches(line), Converts)
         IN  [i \in DOMAIN ok |-> Line(Offset(ok[i]), LyricOf(line))]

InsertByOffsetMut(s, x) ==
    LET before == SelectSeq(s, LAMBDA e : e.offset < x.offset)
        after == SelectSeq(s, LAMBDA e : e.offset >= x.offset)
    IN  before \o <<x>> \o after

\* one step of the stable sort: x goes after every element with offset <= its own
InsertByOffset(s, x) ==
    LET before == SelectSeq(s, LAMBDA e : e.offset <= x.offset)
        after == SelectSeq(s, LAMBDA e : e.offset > x.offset)
    IN  before \o <<x>> \o after

RECURSIVE SortedByOffset(_)
\* sorted(lines, key=lambda x: x[0])
SortedByOffset(lines) ==
    IF lines = <<>> THEN <<>>
    ELSE InsertByOffset(SortedByOffset(SubSeq(lines, 1, Len(lines) - 1)),
                        lines[Len(lines)])

RECURSIVE Accumulate(_)
\* the list "lines" after the loop over all records
Accumulate(text) ==
    IF text = <<>> THEN <<>>
    ELSE Accumulate(SubSeq(text, 1, Len(text) - 1)) \o RecordLines(text[Len(text)])

parse_lrc(text) ==
    LET lines == Accumulate(text)
    IN  IF lines # <<>> THEN SortedByOffset(lines) ELSE NoParse

-----------------------------------------------------------------------------
(* LyricsManager *)

Artists == {<<"a">>, <<"a", " - ", "b">>}
Titles == {<<"c">>, <<"b", " - ", "c">>}

\* f"{artist} - {title}"
Key(a, t) == a \o <<" - ">> \o t

\* f"{artist} {title}"
Query(a, t) == a \o <<" ">> \o t

Keys == {Key(a, t) : a \in Artists, t \in Titles}

\* what the lyric service holds for a query: one record with three
\* timestamps followed by the query text
RemoteText(a, t) ==
    LET q == Query(a, t)
    IN  << <<Ts(0, 1, FALSE), Ts(1, 0, FALSE), Ts(1, 1, FALSE)>>
           \o [i \in DOMAIN q |-> Ch(q[i])] >>

\* the literal "Lyrics not found" used as lyrics_text
NotFoundText == << <<Ch("Lyrics not found")>> >>

NetOutcomes == {"error", "empty", "malformed", "synced", "none", "url"}

Returned(v) == [raised |-> FALSE, val |-> v]
Raised == [raised |-> TRUE, val |-> <<>>]

\* _fetch_lyrics; net is what the service answers, logOk whether the
\* log_error call of the handler that runs completes without raising
_fetch_lyrics(a, t, net, logOk) ==
    CASE net = "error" -> IF logOk THEN Returned(NotFound) ELSE Raised
      [] net = "empty" -> Returned(NotFound)
      [] net = "malformed" -> Raised
      [] net = "synced" -> Returned(parse_lrc(RemoteText(a, t)))
      [] net = "none" -> Returned(parse_lrc(NotFoundText))
      [] net = "url" -> IF logOk THEN Returned(parse_lrc(NotFoundText)) ELSE Raised

CacheKeys(c) == {c[i].key : i \in DOMAIN c}
InCache(c, k) == k \in CacheKeys(c)

\* self.cache[key] on a key that is present
CacheGet(c, k) == c[CHOOSE i \in DOMAIN c : c[i].key = k].val

MoveToEndMut(c, k) == c

\* self.cache.move_to_end(key)
MoveToEnd(c, k) ==
    SelectSeq(c, LAMBDA e : e.key # k) \o SelectSeq(c, LAMBDA e : e.key = k)

\* self.cache[key] = lyrics
SetItem(c, k, v) ==
    IF InCache(c, k)
    THEN [i \in DOMAIN c |-> IF c[i].key = k THEN [key |-> k, val |-> v] ELSE c[i]]
    ELSE Append(c, [key |-> k, val |-> v])

EvictMut(c, size) == IF Len(c) >= size THEN Tail(c) ELSE c

\* if len(self.cache) > self.cache_size: self.cache.popitem(last=False)
Evict(c, size) == IF Len(c) > size THEN Tail(c) ELSE c

\* get_lyrics: the cache afterwards, the value returned (or raised), and
\* whether _fetch_lyrics was invoked.  logOk1 and logOk2 are the outcomes of
\* the log_error calls in _fetch_lyrics and in get_lyrics.
get_lyrics(c, size, a, t, net, logOk1, logOk2) ==
    LET key == Key(a, t)
    IN  IF InCache(c, key)
        THEN [cache |-> MoveToEnd(c, key), ret |-> CacheGet(c, key),
              raised |-> FALSE, fetched |-> FALSE]
        ELSE LET f == _fetch_lyrics(a, t, net, logOk1)
             IN  IF f.raised
                 THEN IF logOk2
                      THEN [cache |-> c, ret |-> NotFound,
                            raised |-> FALSE, fetched |-> TRUE]
                      ELSE [cache |-> c, ret |-> <<>>,
                            raised |-> TRUE, fetched |-> TRUE]
                 ELSE [cache |-> Evict(SetItem(c, key, f.val), size), ret |-> f.val,
                       raised |-> FALSE, fetched |-> TRUE]

\* log_error: open(ERROR_LOG, "a") and f.write, with no handler around
\* them: the call raises exactly when the write fails
log_error(writeOk) == [raised |-> ~writeOk]

\* the outcomes of a log_error call: it returns (TRUE) or raises (FALSE);
\* one value when the call is not reached
LogOutcomes(reached) ==
    IF reached THEN {~log_error(writeOk).raised : writeOk \in BOOLEAN} ELSE {TRUE}

\* the answers of the service that get_lyrics can see: none on a cache hit
Answers(c, a, t) == IF InCache(c, Key(a, t)) THEN {"synced"} ELSE NetOutcomes

\* _fetch_lyrics runs and reaches one of its log_error calls
FetchLogs(c, a, t, net) == ~InCache(c, Key(a, t)) /\ net \in {"error", "url"}

\* _fetch_lyrics runs and raises, so that get_lyrics reaches its log_error call
FetchRaises(c, a, t, net, logOk) ==
    ~InCache(c, Key(a, t)) /\ _fetch_lyrics(a, t, net, logOk).raised

NoCall == [op |-> "none"]
NoAccess == [k \in Keys |-> [ins |-> 0, acc |-> 0]]
NoPanel == [idx |-> 0, start |-> 0, end |-> 0, lyrics |-> <<>>, key |-> None]

\* the retrieval failed: network error, empty result or an exception
Failed(net) == net \in {"error", "empty", "malformed"}

\* LyricsManager(cache_size), cache_size >= 1, before any call
InitMgr ==
    /\ cache = <<>>
    /\ cache_size \in 1..MaxCap
    /\ window = 1
    /\ last_track = None
    /\ lyrics_lines = NotFound
    /\ pc = "idle"
    /\ artist = None
    /\ title = None
    /\ panel = NoPanel
    /\ call = NoCall
    /\ clock = 0
    /\ access = NoAccess
    /\ runId = None
    /\ runFetches = 0
    /\ inflight = <<>>
    /\ lyricsFor = None

\* one completed call get_lyrics(a, t) by a sequential caller
GetLyricsCall ==
    /\ clock < MaxCalls
    /\ \E a \in Artists, t \in Titles :
       \E net \in Answers(cache, a, t) :
       \E logOk1 \in LogOutcomes(FetchLogs(cache, a, t, net)) :
       \E logOk2 \in LogOutcomes(FetchRaises(cache, a, t, net, logOk1)) :
         LET r == get_lyrics(cache, cache_size, a, t, net, logOk1, logOk2)
             key == Key(a, t)
             hit == InCache(cache, key)
             stored == ~hit /\ InCache(r.cache, key)
         IN  /\ cache' = r.cache
             /\ clock' = clock + 1
             /\ access' =
                  IF hit THEN [access EXCEPT ![key].acc = clock + 1]
                  ELSE IF stored
                       THEN [access EXCEPT ![key] = [ins |-> clock + 1, acc |-> clock + 1]]
                       ELSE access
             /\ call' = [op |-> "get_lyrics", artist |-> a, title |-> t,
                         key |-> key, hit |-> hit,
                         fetched |-> r.fetched, failed |-> r.fetched /\ Failed(net),
                         raised |-> r.raised, ret |-> r.ret,
                         before |-> cache, accessBefore |-> access]
    /\ UNCHANGED <<cache_size, window, last_track, lyrics_lines, pc, artist,
                   title, panel, runId, runFetches, inflight, lyricsFor>>

NextMgr == GetLyricsCall

SpecMgr == InitMgr /\ [][NextMgr]_vars

-----------------------------------------------------------------------------
(* Claims about the cache *)

Removed == CacheKeys(call.before) \ CacheKeys(cache)

\* the key of call.before whose most recent access is the oldest
LeastRecent ==
    CHOOSE k \in CacheKeys(call.before) :
        \A j \in CacheKeys(call.before) : call.accessBefore[k].acc <= call.accessBefore[j].acc

\* C1: with capacity >= 1, when a miss inserts a key and the entry count
\* exceeds the capacity, exactly one entry is evicted, and it is the key whose
\* most recent access (insertion or hit) is the oldest; a hit removes nothing
\* and the key hit is in the cache afterwards.
C1_LruEviction ==
    (call.op = "get_lyrics" /\ cache_size >= 1) =>
        /\ (~call.hit /\ InCache(cache, call.key) /\ Len(call.before) + 1 > cache_size)
              => /\ CacheKeys(call.before) # {}
                 /\ Removed = {LeastRecent}
                 /\ Len(cache) = Len(call.before)
        /\ call.hit => (Removed = {} /\ InCache(cache, call.key))

\* an eviction that removed a key inserted after a surviving key: the survivor
\* was protected by a cache hit
C1_Witness ==
    /\ call.op = "get_lyrics"
    /\ Removed # {}
    /\ \E k \in Removed, j \in CacheKeys(call.before) \cap CacheKeys(cache) :
          call.accessBefore[j].ins < call.accessBefore[k].ins

\* C2: after every completed get_lyrics call the cache holds at most
\* cache_size entries, and an entry leaves the cache only when the call
\* inserted a key that took the count above cache_size.
C2_Bounded ==
    /\ Len(cache) <= cache_size
    /\ (call.op = "get_lyrics" /\ Removed # {}) =>
          /\ ~InCache(call.before, call.key)
          /\ InCache(cache, call.key)
          /\ Len(call.before) + 1 > cache_size

C2_Witness ==
    /\ call.op = "get_lyrics"
    /\ Removed # {}
    /\ Len(cache) = cache_size
    /\ cache_size = MaxCap

\* C3: on any failure of the retrieval for a key, get_lyrics stores a
\* one-line sentinel sequence in the cache under that key.
C3_FailureCached ==
    (call.op = "get_lyrics" /\ call.failed) =>
        /\ InCache(cache, call.key)
        /\ Len(CacheGet(cache, call.key)) = 1

-----------------------------------------------------------------------------
(* render_panel and WindowManager *)

ActiveIndexMut(lyrics, t) ==
    LET n == Len(lyrics)
        hits == {i \in 0..(n - 2) :
                    lyrics[i + 1].offset < t /\ t < lyrics[i + 2].offset}
    IN  IF hits # {} THEN Min(hits) ELSE n - 1

\* the for/else loop of render_panel that sets idx
ActiveIndex(lyrics, t) ==
    LET n == Len(lyrics)
        hits == {i \in 0..(n - 2) :
                    lyrics[i + 1].offset <= t /\ t < lyrics[i + 2].offset}
    IN  IF hits # {} THEN Min(hits) ELSE n - 1

NoClampIndices(size, current_index, total_lines) ==
    IF total_lines <= size THEN <<0, total_lines>>
    ELSE LET half == size \div 2
             top == MaxOf(0, current_index - half)
             bottom == top + size
         IN  <<MaxOf(0, bottom - size), bottom>>

NoTightenIndices(size, current_index, total_lines) ==
    IF total_lines <= size THEN <<0, total_lines>>
    ELSE LET half == size \div 2
             top == MaxOf(0, current_index - half)
             bottom == MinOf(top + size, total_lines)
         IN  <<top, bottom>>

RoundUpHalfIndices(size, current_index, total_lines) ==
    IF total_lines <= size THEN <<0, total_lines>>
    ELSE LET half == (size + 1) \div 2
             top == MaxOf(0, current_index - half)
             bottom == MinOf(top + size, total_lines)
         IN  <<MaxOf(0, bottom - size), bottom>>

FullHalfIndices(size, current_index, total_lines) ==
    IF total_lines <= size THEN <<0, total_lines>>
    ELSE LET half == size
             top == MaxOf(0, current_index - half)
             bottom == MinOf(top + size, total_lines)
         IN  <<MaxOf(0, bottom - size), bottom>>

\* WindowManager(size).get_indices(current_index, total_lines)
get_indices(size, current_index, total_lines) ==
    IF total_lines <= size THEN <<0, total_lines>>
    ELSE LET half == size \div 2
             top == MaxOf(0, current_index - half)
             bottom == MinOf(top + size, total_lines)
         IN  <<MaxOf(0, bottom - size), bottom>>

\* render_panel up to the choice of the displayed range
render_panel(lyrics, current_time, a, t, size) ==
    LET idx == ActiveIndex(lyrics, current_time)
        w == get_indices(size, idx, Len(lyrics))
    IN  [idx |-> idx, start |-> w[1], end |-> w[2], lyrics |-> lyrics,
         key |-> Key(a, t)]

-----------------------------------------------------------------------------
(* The pure functions applied to inputs drawn from bounded sets *)

Alphabet == {Ts(0, 1, FALSE), Ts(1, 0, FALSE), Ts(0, 2, TRUE), Ch("a"), Ch(" ")}
RECURSIVE Sum(_)
Sum(lens) == IF lens = <<>> THEN 0 ELSE Head(lens) + Sum(Tail(lens))

RECURSIVE SplitLines(_, _)
\* text.splitlines(): the symbols cut into records of the given lengths
SplitLines(syms, lens) ==
    IF lens = <<>> THEN <<>>
    ELSE <<SubSeq(syms, 1, Head(lens))>>
            \o SplitLines(SubSeq(syms, Head(lens) + 1, Len(syms)), Tail(lens))

\* the lengths of the records of a text: at most MaxRecords records of at
\* most MaxRecLen symbols, MaxSymbols symbols in all
RecordLengths ==
    {lens \in UNION {[1..n -> 0..MaxRecLen] : n \in 0..MaxRecords} :
        Sum(lens) <= MaxSymbols}

\* non-empty sequences of lines with non-decreasing offsets
SortedLyrics ==
    {[i \in DOMAIN o |-> Line(o[i], <<"x">>)] :
        o \in {s \in SeqsUpTo(0..MaxOff, MaxLines) :
                  s # <<>> /\ \A i \in 1..(Len(s) - 1) : s[i] <= s[i + 1]}}

Times == (-1)..(MaxOff + 1)
Sizes == (-1)..MaxSize

LocateInputs ==
    {[op |-> "locate", done |-> FALSE, lyrics |-> l, t |-> t, idx |-> 0] :
        l \in SortedLyrics, t \in Times}

WindowInputs ==
    UNION {{[op |-> "window", done |-> FALSE, size |-> size, total |-> total,
             current |-> ci, start |-> 0, end |-> 0] :
               size \in Sizes, ci \in 0..(MaxOf(total, 1) - 1)} : total \in 0..MaxTotal}

RenderInputs ==
    {[op |-> "render", done |-> FALSE, lyrics |-> l, t |-> t, size |-> size,
      idx |-> 0, start |-> 0, end |-> 0] :
        l \in SortedLyrics, t \in Times, size \in Sizes}

LogInputs ==
    {[op |-> "log", done |-> FALSE, writeOk |-> w, raised |-> FALSE] : w \in BOOLEAN}

\* the arguments of one call of a pure function, before the call
InitFn ==
    /\ cache = <<>>
    /\ cache_size = 1
    /\ window = 1
    /\ last_track = None
    /\ lyrics_lines = NotFound
    /\ pc = "idle"
    /\ artist = None
    /\ title = None
    /\ panel = NoPanel
    /\ \/ call \in LocateInputs \cup WindowInputs \cup RenderInputs \cup LogInputs
       \/ \E lens \in RecordLengths :
             \E syms \in [1..Sum(lens) -> Alphabet] :
                call = [op |-> "parse", done |-> FALSE,
                        text |-> SplitLines(syms, lens), result |-> <<>>]
    /\ clock = 0
    /\ access = NoAccess
    /\ runId = None
    /\ runFetches = 0
    /\ inflight = <<>>
    /\ lyricsFor = None

Locate ==
    /\ call.op = "locate" /\ ~call.done
    /\ call' = [call EXCEPT !.done = TRUE, !.idx = ActiveIndex(call.lyrics, call.t)]
    /\ UNCHANGED <<cache, cache_size, window, last_track, lyrics_lines, pc, artist,
                   title, panel, clock, access, runId, runFetches, inflight, lyricsFor>>

Select ==
    /\ call.op = "window" /\ ~call.done
    /\ LET w == get_indices(call.size, call.current, call.total)
       IN  call' = [call EXCEPT !.done = TRUE, !.start = w[1], !.end = w[2]]
    /\ UNCHANGED <<cache, cache_size, window, last_track, lyrics_lines, pc, artist,
                   title, panel, clock, access, runId, runFetches, inflight, lyricsFor>>

Parse ==
    /\ call.op = "parse" /\ ~call.done
    /\ call' = [call EXCEPT !.done = TRUE, !.result = parse_lrc(call.text)]
    /\ UNCHANGED <<cache, cache_size, window, last_track, lyrics_lines, pc, artist,
                   title, panel, clock, access, runId, runFetches, inflight, lyricsFor>>

\* render_panel: the active index and the displayed range
Render ==
    /\ call.op = "render" /\ ~call.done
    /\ LET p == render_panel(call.lyrics, call.t, <<"a">>, <<"c">>, call.size)
       IN  call' = [call EXCEPT !.done = TRUE, !.idx = p.idx,
                                !.start = p.start, !.end = p.end]
    /\ UNCHANGED <<cache, cache_size, window, last_track, lyrics_lines, pc, artist,
                   title, panel, clock, access, runId, runFetches, inflight, lyricsFor>>

\* log_error(msg)
Log ==
    /\ call.op = "log" /\ ~call.done
    /\ call' = [call EXCEPT !.done = TRUE, !.raised = log_error(call.writeOk).raised]
    /\ UNCHANGED <<cache, cache_size, window, last_track, lyrics_lines, pc, artist,
                   title, panel, clock, access, runId, runFetches, inflight, lyricsFor>>

NextFn == Locate \/ Select \/ Parse \/ Render \/ Log

SpecFn == InitFn /\ [][NextFn]_vars

-----------------------------------------------------------------------------
(* run_lyrics: one action per await of the loop *)

MaxWindow == 2

Empty == <<>>

\* what playerctl answers for a metadata field: a value, empty output, or
\* nothing within the timeout (None)
ArtistAnswers == Artists \cup {Empty, None}
TitleAnswers == Titles \cup {Empty, None}

\* playerctl position, in seconds
Positions == {0, 1, 60, 61}

NoneOnly(x) == x = None

\* "not artist", "not title"
Absent(x) == x = None \/ x = Empty

AlwaysChanged(track_key, last) == TRUE

\* if track_key != last_track
Changed(track_key, last) == track_key # last

NotAwaited(fl, op) == fl

\* the awaited operation op has completed and the loop resumes
Complete(fl, op) ==
    LET at == Min({i \in DOMAIN fl : fl[i] = op})
    IN  IF op \in {fl[i] : i \in DOMAIN fl}
        THEN SubSeq(fl, 1, at - 1) \o SubSeq(fl, at + 1, Len(fl))
        ELSE fl

\* await op: op is started and the loop is suspended on it
Await(fl, op) == Append(fl, op)

KeepOnRaise(track_key, last, raised) == IF raised THEN last ELSE track_key

\* last_track = track_key, after the try statement around get_lyrics
NextLastTrack(track_key, last, raised) == track_key

\* run_lyrics before the first tick, for a valid configuration
Init ==
    /\ cache = <<>>
    /\ cache_size \in 1..MaxCap
    /\ window \in 1..MaxWindow
    /\ last_track = None
    /\ lyrics_lines = NotFound
    /\ pc = "get_track"
    /\ artist = None
    /\ title = None
    /\ panel = NoPanel
    /\ call = NoCall
    /\ clock = 0
    /\ access = NoAccess
    /\ runId = <<None, None>>
    /\ runFetches = 0
    /\ inflight = Await(<<>>, "get_track")
    /\ lyricsFor = None

\* artist, title = await player.get_track(), then the two tests on the result
GetTrack ==
    /\ pc = "get_track"
    /\ \E a \in ArtistAnswers, t \in TitleAnswers :
          LET done == Complete(inflight, "get_track")
          IN  /\ artist' = a
              /\ title' = t
              /\ IF Absent(a) \/ Absent(t)
                 THEN /\ pc' = "sleep_idle"
                      /\ inflight' = done
                      /\ UNCHANGED <<runId, runFetches>>
                 ELSE /\ pc' = IF Changed(Key(a, t), last_track)
                                THEN "get_lyrics" ELSE "get_position"
                      /\ inflight' =
                            IF ~Changed(Key(a, t), last_track)
                            THEN Await(done, "get_position")
                            ELSE IF InCache(cache, Key(a, t)) THEN done
                                 ELSE Await(done, "fetch")
                      /\ runId' = <<a, t>>
                      /\ runFetches' = IF <<a, t>> = runId THEN runFetches ELSE 0
    /\ UNCHANGED <<cache, cache_size, window, last_track, lyrics_lines, panel,
                   call, clock, access, lyricsFor>>

\* get_track or a log_error call in it raises: (None, None) when the handler's
\* log write succeeds, otherwise the exception leaves the loop
GetTrackRaises ==
    /\ pc = "get_track"
    /\ \E logOk \in BOOLEAN :
          IF logOk
          THEN artist' = None /\ title' = None /\ pc' = "sleep_idle"
          ELSE pc' = "crashed" /\ UNCHANGED <<artist, title>>
    /\ inflight' = Complete(inflight, "get_track")
    /\ UNCHANGED <<cache, cache_size, window, last_track, lyrics_lines, panel,
                   call, clock, access, runId, runFetches, lyricsFor>>

\* the try statement around await lyrics_mgr.get_lyrics(artist, title), and
\* last_track = track_key
GetLyrics ==
    /\ pc = "get_lyrics"
    /\ \E net \in Answers(cache, artist, title) :
       \E logOk1 \in LogOutcomes(FetchLogs(cache, artist, title, net)) :
       \E logOk2 \in LogOutcomes(FetchRaises(cache, artist, title, net, logOk1)) :
       \E logOk3 \in LogOutcomes(FetchRaises(cache, artist, title, net, logOk1) /\ ~logOk2) :
          LET r == get_lyrics(cache, cache_size, artist, title, net, logOk1, logOk2)
              track_key == Key(artist, title)
              done == IF r.fetched THEN Complete(inflight, "fetch") ELSE inflight
          IN  /\ cache' = r.cache
              /\ runFetches' = IF r.fetched THEN runFetches + 1 ELSE runFetches
              /\ IF r.raised /\ ~logOk3
                 THEN /\ pc' = "crashed"
                      /\ inflight' = done
                      /\ UNCHANGED <<last_track, lyrics_lines, lyricsFor>>
                 ELSE /\ lyrics_lines' =
                            IF ~r.raised /\ r.ret # <<>> THEN r.ret ELSE lyrics_lines
                      /\ lyricsFor' =
                            IF ~r.raised /\ r.ret # <<>> THEN track_key ELSE lyricsFor
                      /\ last_track' = NextLastTrack(track_key, last_track, r.raised)
                      /\ pc' = "get_position"
                      /\ inflight' = Await(done, "get_position")
    /\ UNCHANGED <<cache_size, window, artist, title, panel, call, clock, access, runId>>

\* pos = await player.get_position(), render_panel and live.update(panel);
\* a failed query gives 0.0 when its log write succeeds
GetPosition ==
    /\ pc = "get_position"
    /\ \/ \E pos \in Positions :
             /\ panel' = render_panel(lyrics_lines, pos, artist, title, window)
             /\ pc' = "sleep"
       \/ \E logOk \in BOOLEAN :
             IF logOk
             THEN /\ panel' = render_panel(lyrics_lines, 0, artist, title, window)
                  /\ pc' = "sleep"
             ELSE pc' = "crashed" /\ UNCHANGED panel
    /\ inflight' = Complete(inflight, "get_position")
    /\ UNCHANGED <<cache, cache_size, window, last_track, lyrics_lines, artist,
                   title, call, clock, access, runId, runFetches, lyricsFor>>

\* await asyncio.sleep(0.1) after a render
Sleep ==
    /\ pc = "sleep"
    /\ pc' = "get_track"
    /\ inflight' = Await(inflight, "get_track")
    /\ UNCHANGED <<cache, cache_size, window, last_track, lyrics_lines, artist,
                   title, panel, call, clock, access, runId, runFetches, lyricsFor>>

\* await asyncio.sleep(0.5) and continue, when the track is unknown
SleepIdle ==
    /\ pc = "sleep_idle"
    /\ pc' = "get_track"
    /\ inflight' = Await(inflight, "get_track")
    /\ UNCHANGED <<cache, cache_size, window, last_track, lyrics_lines, artist,
                   title, panel, call, clock, access, runId, runFetches, lyricsFor>>

Next == GetTrack \/ GetTrackRaises \/ GetLyrics \/ GetPosition \/ Sleep \/ SleepIdle

Spec == Init /\ [][Next]_vars

\* the values argparse accepts for --window and --cache-size (type=int)
ArgWindows == (-1)..1
ArgCacheSizes == (-1)..1

\* main() after parser.parse_args()
InitMain ==
    /\ cache = <<>>
    /\ cache_size \in ArgCacheSizes
    /\ window \in ArgWindows
    /\ last_track = None
    /\ lyrics_lines = NotFound
    /\ pc = "main"
    /\ artist = None
    /\ title = None
    /\ panel = NoPanel
    /\ call = NoCall
    /\ clock = 0
    /\ access = NoAccess
    /\ runId = <<None, None>>
    /\ runFetches = 0
    /\ inflight = <<>>
    /\ lyricsFor = None

\* main: choose_player, then asyncio.run(run_lyrics(...)) up to its first await
Main ==
    /\ pc = "main"
    /\ \E found \in BOOLEAN :
          IF found
          THEN pc' = "get_track" /\ inflight' = Await(inflight, "get_track")
          ELSE pc' = "exited" /\ UNCHANGED inflight
    /\ UNCHANGED <<cache, cache_size, window, last_track, lyrics_lines, artist,
                   title, panel, call, clock, access, runId, runFetches, lyricsFor>>

NextMain == Main \/ Next

SpecMain == InitMain /\ [][NextMain]_vars

-----------------------------------------------------------------------------
(* Claims about the loop *)

\* C4: over a run of consecutive ticks that observe the same song identity,
\* possibly interleaved with ticks where the identity is unresolvable,
\* _fetch_lyrics is invoked at most once.
C4_OneFetchPerRun == runFetches <= 1

\* a later tick of the same identity after a retrieval that raised and left
\* nothing in the cache: no second retrieval
C4_Witness ==
    /\ pc = "get_position"
    /\ runFetches = 1
    /\ panel.lyrics = NotFound
    /\ ~InCache(cache, Key(artist, title))
    /\ last_track = Key(artist, title)
    /\ panel.key = Key(artist, title)

-----------------------------------------------------------------------------
(* Claims about the active line *)

Reached(lyrics, t) == {i \in 0..(Len(lyrics) - 1) : lyrics[i + 1].offset <= t}

\* C5: when the current time precedes the first line's offset, the active
\* index is 0.
C5_EarlyGivesFirst ==
    (call.op = "locate" /\ call.done /\ call.t < call.lyrics[1].offset) => call.idx = 0

\* C6: for a time at or after the first offset, the active index is the
\* greatest index whose offset is <= the time; at or beyond the last offset it
\* is the last index, and a single-element sequence gives 0.
C6_GreatestReached ==
    (call.op = "locate" /\ call.done /\ call.t >= call.lyrics[1].offset) =>
        /\ call.idx = Max(Reached(call.lyrics, call.t))
        /\ call.t >= call.lyrics[Len(call.lyrics)].offset
              => call.idx = Len(call.lyrics) - 1
        /\ Len(call.lyrics) = 1 => call.idx = 0

\* the time equals an offset that two lines share, and a later line follows
C6_Witness ==
    /\ call.op = "locate" /\ call.done
    /\ Len(call.lyrics) = 3
    /\ call.lyrics[1].offset = call.lyrics[2].offset
    /\ call.t = call.lyrics[2].offset
    /\ call.t < call.lyrics[3].offset
    /\ call.idx = 1

-----------------------------------------------------------------------------
(* Claims about the window *)

\* C7: for size > 0, total_lines >= 0 and 0 <= current_index <
\* max(total_lines, 1), get_indices returns 0 <= start <= end <= total_lines
\* with end - start <= size.
C7_WindowInRange ==
    (call.op = "window" /\ call.done /\ call.size > 0) =>
        /\ 0 <= call.start
        /\ call.start <= call.end
        /\ call.end <= call.total
        /\ call.end - call.start <= call.size

C7_Witness ==
    /\ call.op = "window" /\ call.done
    /\ call.size > 0
    /\ call.total > call.size
    /\ call.current = call.total - 1
    /\ call.end = call.total
    /\ call.start > 0

\* C8: for size > 0 and total_lines >= size the window holds exactly size
\* lines; for total_lines <= size it is (0, total_lines).
C8_FullWindow ==
    (call.op = "window" /\ call.done /\ call.size > 0) =>
        /\ call.total >= call.size => call.end - call.start = call.size
        /\ call.total <= call.size => (call.start = 0 /\ call.end = call.total)

\* the boundary total_lines == size, and the clamp at the right edge
C8_Witness ==
    /\ call.op = "window" /\ call.done
    /\ call.size > 1
    /\ \/ call.total = call.size /\ call.current = call.total - 1
       \/ call.total = call.size + 1 /\ call.current = call.total - 1

-----------------------------------------------------------------------------
(* Claims about parse_lrc *)

\* the timestamp tokens of a text, as <<record, position>> pairs
Tokens(text) ==
    UNION {{<<r, i>> : i \in {j \in DOMAIN text[r] : IsTs(text[r][j])}} : r \in DOMAIN text}

Usable(text) == {p \in Tokens(text) : ~text[p[1]][p[2]].ovf}

\* the text after the last timestamp token of a record, without the spaces
\* around it
Trimmed(line) ==
    LET last == Max({i \in DOMAIN line : IsTs(line[i])})
        solid == {i \in (last + 1)..Len(line) : ~IsSpace(line[i])}
    IN  IF solid = {} THEN <<>>
        ELSE [i \in 1..(Max(solid) - Min(solid) + 1) |-> line[Min(solid) + i - 1].ch]

LineOfToken(text, p) ==
    Line(text[p[1]][p[2]].mins * 60 + text[p[1]][p[2]].secs, Trimmed(text[p[1]]))

Count(seq, x) == Cardinality({k \in DOMAIN seq : seq[k] = x})

\* result holds exactly one line per token of toks
OnePerToken(text, toks, result) ==
    /\ Len(result) = Cardinality(toks)
    /\ \A p \in toks :
          Count(result, LineOfToken(text, p)) =
              Cardinality({q \in toks : LineOfToken(text, q) = LineOfToken(text, p)})

Precedes(p, q) == p[1] < q[1] \/ (p[1] = q[1] /\ p[2] < q[2])

\* the texts of the usable tokens with offset o, in parse order
InParseOrder(text, o) ==
    LET same == {p \in Usable(text) : LineOfToken(text, p).offset = o}
        at(k) == CHOOSE p \in same : Cardinality({q \in same : Precedes(q, p)}) = k - 1
    IN  [k \in 1..Cardinality(same) |-> LineOfToken(text, at(k)).text]

TextsAt(result, o) ==
    LET same == SelectSeq(result, LAMBDA e : e.offset = o)
    IN  [k \in DOMAIN same |-> same[k].text]

\* C9: parse_lrc returns a non-empty sequence with non-decreasing offsets in
\* which lines of equal offset keep their parse order; without any
\* timestamped record the result is exactly one sentinel line with offset 0.
C9_SortedStable ==
    (call.op = "parse" /\ call.done) =>
        /\ call.result # <<>>
        /\ \A i \in 1..(Len(call.result) - 1) :
              call.result[i].offset <= call.result[i + 1].offset
        /\ Usable(call.text) # {} =>
              \A i \in DOMAIN call.result :
                 TextsAt(call.result, call.result[i].offset)
                    = InParseOrder(call.text, call.result[i].offset)
        /\ Tokens(call.text) = {} =>
              (Len(call.result) = 1 /\ call.result[1].offset = 0 /\ call.result = NoParse)

\* two records share an offset with different texts, after a record with a
\* later offset
C9_Witness ==
    /\ call.op = "parse" /\ call.done
    /\ Len(call.result) = 3
    /\ call.result[1].offset = call.result[2].offset
    /\ call.result[1].text # call.result[2].text
    /\ call.result[2].offset < call.result[3].offset
    /\ IsTs(call.text[1][1]) /\ Offset(call.text[1][1]) = call.result[3].offset

\* C10 as stated: every timestamp token of a record yields one line with
\* offset minutes*60 + seconds and the trimmed text after the record's last
\* token; records without a token yield nothing.
C10_LinePerToken ==
    (call.op = "parse" /\ call.done /\ Tokens(call.text) # {}) =>
        OnePerToken(call.text, Tokens(call.text), call.result)

\* C10 amended: every timestamp token whose numeric conversion succeeds yields
\* one such line; tokens whose conversion raises and records without a token
\* yield nothing, and when nothing is yielded the result is the sentinel.
C10_LinePerUsableToken ==
    (call.op = "parse" /\ call.done) =>
        IF Usable(call.text) # {}
        THEN OnePerToken(call.text, Usable(call.text), call.result)
        ELSE call.result = NoParse

\* a record with a usable token, a dropped token and text after the last one,
\* next to a record without any token
C10_Witness ==
    /\ call.op = "parse" /\ call.done
    /\ Len(call.text) = 2
    /\ Len(call.result) = 1
    /\ call.result[1].text = <<"a">>
    /\ \E r \in DOMAIN call.text :
          /\ Len(call.text[r]) = 3
          /\ IsTs(call.text[r][1]) /\ IsTs(call.text[r][2])
          /\ call.text[r][1].ovf # call.text[r][2].ovf
    /\ \E r \in DOMAIN call.text :
          call.text[r] # <<>> /\ \A i \in DOMAIN call.text[r] : ~IsTs(call.text[r][i])

-----------------------------------------------------------------------------
(* Claims about startup and the diagnostic log *)

\* C11: when the window size is not positive or the cache capacity is less
\* than 1, the process exits without entering the tick loop.
C11_InvalidConfigFatal ==
    (window <= 0 \/ cache_size < 1) => pc \in {"main", "exited"}

\* C12: log_error never raises to its caller, also when the log write fails.
C12_LogNeverRaises ==
    (call.op = "log" /\ call.done) => ~call.raised

\* C13: no retrieval failure, player-query failure or player-query timeout
\* terminates the loop: after it the loop goes on to a next tick.
C13_LoopSurvives == pc # "crashed"

-----------------------------------------------------------------------------
(* Claims about the centred window and the render *)

\* C16: for size > 0 and total_lines > size, a current_index with
\* size // 2 <= current_index <= total_lines - (size - size // 2) gives
\* start == current_index - size // 2; nearer to an edge the window is
\* [0, size) or [total_lines - size, total_lines).
C16_Centred ==
    (call.op = "window" /\ call.done /\ call.size > 0 /\ call.total > call.size) =>
        LET half == call.size \div 2
            last == call.total - (call.size - half)
        IN  /\ (half <= call.current /\ call.current <= last)
                  => call.start = call.current - half
            /\ call.current < half
                  => (call.start = 0 /\ call.end = call.size)
            /\ call.current > last
                  => (call.start = call.total - call.size /\ call.end = call.total)

\* an odd size, with the window away from both edges
C16_Witness ==
    /\ call.op = "window" /\ call.done
    /\ call.size = 3
    /\ call.total > call.size
    /\ call.start > 0
    /\ call.end < call.total
    /\ call.start = call.current - 1

\* C18: for a non-empty sequence, any time and a window size > 0, the range
\* render_panel gets from get_indices holds the active index.
C18_ActiveInWindow ==
    (call.op = "render" /\ call.done /\ call.size > 0) =>
        (call.start <= call.idx /\ call.idx < call.end)

\* more lines than the window shows, the active line being the last one
C18_Witness ==
    /\ call.op = "render" /\ call.done
    /\ call.size > 0
    /\ Len(call.lyrics) > call.size
    /\ call.idx = Len(call.lyrics) - 1
    /\ call.start > 0

-----------------------------------------------------------------------------
(* Claims about the ticks of the loop *)

\* C14: a tick whose song identity equals the last seen identity makes no
\* call to get_lyrics and leaves the cache (keys, sequences, recency order),
\* the current sequence and the last seen identity unchanged, through the
\* position query, the render and the sleep.
C14_SameIdentityFrame ==
    [][/\ (/\ pc = "get_track"
           /\ pc' \notin {"sleep_idle", "crashed"}
           /\ Key(artist', title') = last_track)
          => (/\ pc' = "get_position"
              /\ runFetches' = runFetches \/ runFetches' = 0
              /\ UNCHANGED <<cache, lyrics_lines, last_track>>)
       /\ pc \in {"get_position", "sleep"}
          => UNCHANGED <<cache, lyrics_lines, last_track>>]_vars

\* a tick for the identity of the previous render, with a filled cache,
\* waiting for the position
C14_Witness ==
    /\ pc = "get_position"
    /\ inflight = <<"get_position">>
    /\ panel.key = Key(artist, title)
    /\ last_track = Key(artist, title)
    /\ Len(cache) = 2

\* C15: a tick in which the artist or the title is unknown or empty renders
\* nothing and leaves the last seen identity, the current sequence and the
\* cache unchanged; after its sleep the next tick queries the identity again.
C15_AbsentTrackFrame ==
    [][/\ (/\ pc = "get_track"
           /\ pc' # "crashed"
           /\ (artist' \in {None, Empty} \/ title' \in {None, Empty}))
          => (/\ pc' = "sleep_idle"
              /\ UNCHANGED <<last_track, lyrics_lines, cache, panel>>)
       /\ pc = "sleep_idle"
          => (/\ pc' = "get_track"
              /\ UNCHANGED <<last_track, lyrics_lines, cache, panel>>)]_vars

\* an empty artist with a title, after a song was rendered
C15_Witness ==
    /\ pc = "sleep_idle"
    /\ artist = Empty
    /\ title \in Titles
    /\ last_track # None
    /\ panel # NoPanel
    /\ cache # <<>>

\* C17: at most one operation of the loop is in flight at any time, so at
\* most one retrieval, and a tick starts (its get_track is awaited) only
\* when no retrieval or player query of a previous tick is in flight.
C17_OneInFlight ==
    /\ Len(inflight) <= 1
    /\ pc = "get_track" => inflight = <<"get_track">>
    /\ pc = "get_position" => inflight = <<"get_position">>

\* a retrieval in flight in a tick after the first song
C17_Witness ==
    /\ pc = "get_lyrics"
    /\ inflight = <<"fetch">>
    /\ last_track # None
    /\ cache # <<>>

\* C20: when a panel has been rendered, it is for the identity last_track,
\* and the sequence in it is one get_lyrics returned for that identity or
\* the not-found sentinel, never the sequence of an earlier song.
C20_RenderedIsResolved ==
    pc = "sleep" =>
        /\ panel.key = last_track
        /\ panel.lyrics = lyrics_lines
        /\ lyricsFor = last_track \/ lyrics_lines = NotFound

-----------------------------------------------------------------------------
(* Claims about the cache key *)

\* C19: a cache hit of get_lyrics(artist, title) returns a sequence that was
\* fetched for that (artist, title) pair: the synced lyrics of the pair or a
\* sentinel, never the lyrics fetched for a different pair.
C19_HitIsOwnPair ==
    (call.op = "get_lyrics" /\ call.hit) =>
        call.ret \in {NotFound, parse_lrc(NotFoundText),
                      parse_lrc(RemoteText(call.artist, call.title))}

====
